---- MODULE Spec2Model ----
(***************************************************************************)
(* The Egg interpreter: a recursive-descent parser (skipSpace,             *)
(* parseExpression, parseApply, parse) and a tree-walking evaluator        *)
(* (evaluate, specialForms, topScope, run).                                *)
(*                                                                         *)
(* Source text is a sequence of one-character strings.  The evaluator is   *)
(* modelled as a machine whose control is either an expression about to be *)
(* evaluated in a scope, a value being returned, a pending call or a       *)
(* thrown error, and whose stack holds one frame per JavaScript activation *)
(* that is waiting for a nested call of evaluate to return.                *)
(***************************************************************************)
EXTENDS Integers, Sequences, FiniteSets, TLC

VARIABLES
  program,  \* the source text given to run (Spec) or parseExpression (SpecParse)
  atom,     \* the literal or identifier matched at the start of program, and
            \* the text after it: what parseExpression hands to parseApply
  parsed,   \* what parse (Spec) or parseExpression (SpecParse) made of program
  ctrl,     \* what the evaluator is doing now
  stack,    \* the activations waiting for a nested evaluate to return
  scopes,   \* every scope object created so far; scopes[1] is topScope
  output,   \* the values console.log has printed
  trace,    \* the calls and returns of evaluate in the current run, in order
  runs,     \* how many times run was invoked
  result,   \* the outcome of the latest run
  seen      \* the outcome of the first finished run of each program text

vars ==
  <<program, atom, parsed, ctrl, stack, scopes, output, trace, runs, result,
    seen>>

\* ------------------------------------------------------------------ bounds

\* Longest input text handed to parseExpression in SpecParse.
MaxLen == 3

\* Number of run(...) invocations in one behaviour of Spec.
MaxRuns == 2

\* ------------------------------------------------------- character classes

Digits == {"0", "1", "2", "3", "4", "5", "6", "7", "8", "9"}

Letters ==
  {"a", "b", "c", "d", "e", "f", "g", "h", "i", "j", "k", "l", "m", "n", "o",
   "p", "q", "r", "s", "t", "u", "v", "w", "x", "y", "z",
   "A", "B", "C", "D", "E", "F", "G", "H", "I", "J", "K", "L", "M", "N", "O",
   "P", "Q", "R", "S", "T", "U", "V", "W", "X", "Y", "Z"}

\* \w of a JavaScript regular expression: [A-Za-z0-9_]
WordChars == Digits \cup Letters \cup {"_"}

\* \s of a JavaScript regular expression (the characters the inputs use)
Whitespace == {" ", "\t", "\n"}

\* the characters the identifier pattern [^\s(),#"] excludes
NonIdentifierChars == Whitespace \cup {"(", ")", ",", "#", "\""}

\* ---------------------------------------------------------- runtime values

Num(n) == [t |-> "number", v |-> n]
Str(s) == [t |-> "string", v |-> s]
Bool(b) == [t |-> "boolean", v |-> b]
\* JavaScript's undefined: what a read past the end of an array yields.
Undefined == [t |-> "undefined"]
Arr(vs) == [t |-> "array", v |-> vs]
Native(name) == [t |-> "function", kind |-> "native", name |-> name]
Closure(params, body, scope) ==
  [t |-> "function", kind |-> "fun", params |-> params, body |-> body,
   scope |-> scope]

\* a test that lets every operator value through
IsFunctionAlways(val) == TRUE

\* typeof op == "function"
IsFunction(val) == val.t = "function"

\* ------------------------------------------------------------------ parser

RECURSIVE skipSpace(_)
skipSpace(string) ==
  IF string = <<>> THEN <<>>
  ELSE IF Head(string) \in Whitespace THEN skipSpace(Tail(string))
  ELSE string

\* length of the longest prefix of s made of characters in set
RECURSIVE RunLenIn(_, _)
RunLenIn(s, set) ==
  IF s = <<>> \/ Head(s) \notin set THEN 0 ELSE 1 + RunLenIn(Tail(s), set)

\* length of the longest prefix of s made of characters not in set
RECURSIVE RunLenNotIn(_, _)
RunLenNotIn(s, set) ==
  IF s = <<>> \/ Head(s) \in set THEN 0 ELSE 1 + RunLenNotIn(Tail(s), set)

\* nothing parsed yet
NotParsed == [ok |-> FALSE, error |-> "none", message |-> "not parsed"]

NoMatch == [ok |-> FALSE, len |-> 0]
Match(n) == [ok |-> TRUE, len |-> n]

\* /^"([^"]*)"/ : an opening quote, the non-quote run, a closing quote
matchString(p) ==
  IF p /= <<>> /\ Head(p) = "\""
  THEN LET n == RunLenNotIn(Tail(p), {"\""})
       IN IF n + 2 <= Len(p) THEN Match(n + 2) ELSE NoMatch
  ELSE NoMatch

\* /^\d+/ without the trailing \b: the digit run alone
matchNumberNoBoundary(p) ==
  LET n == RunLenIn(p, Digits)
  IN IF n >= 1 THEN Match(n) ELSE NoMatch

\* /^\d+\b/ : the digit run, then a word boundary.  The character before the
\* boundary is a digit (a word character), so the boundary needs the end of
\* input or a non-word character next; a shorter digit run is followed by a
\* digit, so backtracking finds no other match.
matchNumber(p) ==
  LET n == RunLenIn(p, Digits)
  IN IF n >= 1 /\ (n = Len(p) \/ p[n + 1] \notin WordChars)
     THEN Match(n) ELSE NoMatch

\* /^[^\s(),#"]+/
matchIdentifier(p) ==
  LET n == RunLenNotIn(p, NonIdentifierChars)
  IN IF n >= 1 THEN Match(n) ELSE NoMatch

DigitValue(c) ==
  CASE c = "0" -> 0 [] c = "1" -> 1 [] c = "2" -> 2 [] c = "3" -> 3
    [] c = "4" -> 4 [] c = "5" -> 5 [] c = "6" -> 6 [] c = "7" -> 7
    [] c = "8" -> 8 [] c = "9" -> 9

\* Number(match[0]) on a run of decimal digits
RECURSIVE Number(_)
Number(digits) ==
  IF digits = <<>> THEN 0
  ELSE 10 * Number(SubSeq(digits, 1, Len(digits) - 1))
       + DigitValue(digits[Len(digits)])

\* program.slice(n)
Slice(s, n) == SubSeq(s, n + 1, Len(s))

ValueExpr(val) == [type |-> "value", value |-> val]
IdentifierExpr(name) == [type |-> "valid identifier", name |-> name]
ApplyExpr(operator, args) ==
  [type |-> "apply", operator |-> operator, args |-> args]

Parsed(expr, rest) == [ok |-> TRUE, expr |-> expr, rest |-> rest]
SyntaxError(message) ==
  [ok |-> FALSE, error |-> "SyntaxError", message |-> message]

\* parseExpression up to its call of parseApply: the atom and the text after it
parseAtom(text) ==
  LET p == skipSpace(text)
      s == matchString(p)
      n == matchNumber(p)
      i == matchIdentifier(p)
  IN IF s.ok
     THEN Parsed(ValueExpr(Str(SubSeq(p, 2, s.len - 1))), Slice(p, s.len))
     ELSE IF n.ok
     THEN Parsed(ValueExpr(Num(Number(SubSeq(p, 1, n.len)))), Slice(p, n.len))
     ELSE IF i.ok
     THEN Parsed(IdentifierExpr(SubSeq(p, 1, i.len)), Slice(p, i.len))
     ELSE SyntaxError("Unexpected syntax")

RECURSIVE parseExpression(_), parseApply(_, _), parseArgs(_, _, _)

parseExpression(text) ==
  LET a == parseAtom(text)
  IN IF a.ok THEN parseApply(a.expr, a.rest) ELSE a

\* the while loop of parseApply: args holds expr.args so far
parseArgs(operator, args, p) ==
  IF p /= <<>> /\ Head(p) = ")"
  THEN parseApply(ApplyExpr(operator, args), Slice(p, 1))
  ELSE LET arg == parseExpression(p)
       IN IF ~arg.ok THEN arg
          ELSE LET q == skipSpace(arg.rest)
               IN IF q /= <<>> /\ Head(q) = ","
                  THEN parseArgs(operator, Append(args, arg.expr),
                                 skipSpace(Slice(q, 1)))
                  ELSE IF q = <<>> \/ Head(q) /= ")"
                  THEN SyntaxError("Expected ',' or ')'")
                  ELSE parseArgs(operator, Append(args, arg.expr), q)

parseApply(expr, text) ==
  LET p == skipSpace(text)
  IN IF p = <<>> \/ Head(p) /= "("
     THEN Parsed(expr, p)
     ELSE parseArgs(expr, <<>>, skipSpace(Slice(p, 1)))

parse(text) ==
  LET r == parseExpression(text)
  IN IF ~r.ok THEN r
     ELSE IF Len(skipSpace(r.rest)) > 0
     THEN SyntaxError("Unexpected text after program")
     ELSE r

\* -------------------------------------------------------------------- names

if_ == <<"i", "f">>
while_ == <<"w", "h", "i", "l", "e">>
do_ == <<"d", "o">>
define_ == <<"d", "e", "f", "i", "n", "e">>
fun_ == <<"f", "u", "n">>
true_ == <<"t", "r", "u", "e">>
false_ == <<"f", "a", "l", "s", "e">>
print_ == <<"p", "r", "i", "n", "t">>
array_ == <<"a", "r", "r", "a", "y">>
length_ == <<"l", "e", "n", "g", "t", "h">>
element_ == <<"e", "l", "e", "m", "e", "n", "t">>
undefined_ == <<"u", "n", "d", "e", "f", "i", "n", "e", "d">>

\* the keys of specialForms, an object without prototype
SpecialFormNames == {if_, while_, do_, define_, fun_}

\* the operators synthesised by the loop over ["+", "-", "*", "/", "==", "<", ">"]
OperatorNames == {<<"+">>, <<"-">>, <<"*">>, <<"/">>, <<"=", "=">>, <<"<">>, <<">">>}

\* ------------------------------------------------------------------- scopes

\* the prototype of topScope: Object.create(null)
NoScope == 0
TopScopeId == 1

EmptyVars == [n \in {} |-> Undefined]

\* topScope as the module leaves it after its assignments
topScope ==
  [parent |-> NoScope,
   vars |-> [n \in {true_, false_, print_, array_, length_, element_}
                    \cup OperatorNames |->
               IF n = true_ THEN Bool(TRUE)
               ELSE IF n = false_ THEN Bool(FALSE)
               ELSE Native(n)]]

\* Object.create(parent)
ObjectCreate(parent) == [parent |-> parent, vars |-> EmptyVars]

\* name in scope: own properties, then the prototype chain
RECURSIVE Has(_, _, _)
Has(sc, s, name) ==
  IF s = NoScope THEN FALSE
  ELSE IF name \in DOMAIN sc[s].vars THEN TRUE
  ELSE Has(sc, sc[s].parent, name)

\* scope[name], for a name that is in scope
RECURSIVE Get(_, _, _)
Get(sc, s, name) ==
  IF name \in DOMAIN sc[s].vars THEN sc[s].vars[name]
  ELSE Get(sc, sc[s].parent, name)

\* the scope object along the chain of s that holds name as an own property
RECURSIVE Owner(_, _, _)
Owner(sc, s, name) ==
  IF name \in DOMAIN sc[s].vars THEN s ELSE Owner(sc, sc[s].parent, name)

\* an assignment that updates the binding where the chain already holds it
AssignToOwner(sc, s, name, value) ==
  IF Has(sc, s, name)
  THEN [sc EXCEPT ![Owner(sc, s, name)].vars = (name :> value) @@ @]
  ELSE [sc EXCEPT ![s].vars = (name :> value) @@ @]

\* scope[name] = value: every property along the chain is a writable data
\* property, so the assignment creates or overwrites an own property of s
Assign(sc, s, name, value) ==
  [sc EXCEPT ![s].vars = (name :> value) @@ @]

\* s and its ancestors, nearest first
RECURSIVE Chain(_, _)
Chain(sc, s) == IF s = NoScope THEN <<>> ELSE <<s>> \o Chain(sc, sc[s].parent)

\* ----------------------------------------------------------------- built-ins

\* arguments[i] of a JavaScript call: undefined past the actual arguments
Arg(args, i) == IF i <= Len(args) THEN args[i] ELSE Undefined

\* Function("a, b", `return a ${op} b`) for the operand types the programs of
\* this model use: numbers everywhere, with string + string and == on two
\* primitives of one type besides, and / only where the quotient is an
\* integer.  Other operand types are not modelled.
OperatorResult(name, a, b) ==
  CASE name = <<"+">> /\ a.t = "number" /\ b.t = "number" -> Num(a.v + b.v)
    [] name = <<"+">> /\ a.t = "string" /\ b.t = "string" -> Str(a.v \o b.v)
    [] name = <<"-">> /\ a.t = "number" /\ b.t = "number" -> Num(a.v - b.v)
    [] name = <<"*">> /\ a.t = "number" /\ b.t = "number" -> Num(a.v * b.v)
    [] name = <<"/">> /\ a.t = "number" /\ b.t = "number"
         /\ b.v /= 0 /\ a.v % b.v = 0 -> Num(a.v \div b.v)
    [] name = <<"=", "=">> /\ a.t = b.t
         /\ a.t \in {"number", "string", "boolean"} -> Bool(a.v = b.v)
    [] name = <<"<">> /\ a.t = "number" /\ b.t = "number" -> Bool(a.v < b.v)
    [] name = <<">">> /\ a.t = "number" /\ b.t = "number" -> Bool(a.v > b.v)

\* array[n]: the element at zero-based index n, undefined when there is none
ElementOf(array, n) ==
  IF n.t = "number" /\ n.v >= 0 /\ n.v < Len(array.v)
  THEN array.v[n.v + 1] ELSE Undefined

\* a built-in either returns a value or lets a host TypeError escape
Returned(value) == [ok |-> TRUE, value |-> value]
HostError(message) == [ok |-> FALSE, error |-> "TypeError", message |-> message]

\* the functions bound in topScope, applied to the actual arguments.  A
\* property read on undefined throws; on a number or a boolean it yields
\* undefined; function operands of length and element are not modelled.
NativeResult(name, args) ==
  LET a == Arg(args, 1)
      b == Arg(args, 2)
  IN CASE name \in OperatorNames -> Returned(OperatorResult(name, a, b))
       [] name = print_ -> Returned(a)
       [] name = array_ -> Returned(Arr(args))
       [] name = length_ /\ a.t \in {"array", "string"} -> Returned(Num(Len(a.v)))
       [] name = length_ /\ a.t \in {"number", "boolean"} -> Returned(Undefined)
       [] name = length_ /\ a.t = "undefined" ->
            HostError("Cannot read properties of undefined")
       [] name = element_ /\ a.t = "array" -> Returned(ElementOf(a, b))
       [] name = element_ /\ a.t \in {"number", "boolean"} -> Returned(Undefined)
       [] name = element_ /\ a.t = "undefined" ->
            HostError("Cannot read properties of undefined")

\* console.log(value) inside print
NativeOutput(name, args) ==
  IF name = print_ THEN output \o <<Arg(args, 1)>> ELSE output

\* ---------------------------------------------------------------- evaluator

\* what the evaluator is doing
Idle == [kind |-> "idle"]
Eval(expr, scope) == [kind |-> "eval", expr |-> expr, scope |-> scope]
Return(value) == [kind |-> "return", value |-> value]
Call(fn, args) == [kind |-> "call", fn |-> fn, args |-> args]
Throw(error, message) ==
  [kind |-> "throw", error |-> error, message |-> message]

\* what the trace records: evaluate(expr, scope) entered; evaluate returned;
\* specialForms[name](args, scope) entered; op(...values) entered; an error
\* thrown.  depth is the number of activations below the one recorded.
EvaluateEv(expr, scope, depth) ==
  [ev |-> "evaluate", expr |-> expr, scope |-> scope, depth |-> depth]
ReturnEv(value, depth) == [ev |-> "return", value |-> value, depth |-> depth]
FormEv(name, args, scope, depth) ==
  [ev |-> "form", name |-> name, args |-> args, scope |-> scope,
   depth |-> depth]
CallEv(fn, args, depth) ==
  [ev |-> "call", fn |-> fn, args |-> args, depth |-> depth]
ThrowEv(error, message) ==
  [ev |-> "throw", error |-> error, message |-> message]

Top == stack[Len(stack)]
Pop == SubSeq(stack, 1, Len(stack) - 1)
Push(frame) == Append(stack, frame)
Replace(frame) == Append(Pop, frame)

\* evaluate(expr, scope) is called with frames waiting below it
Enter(frames, expr, scope, pre) ==
  /\ stack' = frames
  /\ ctrl' = Eval(expr, scope)
  /\ trace' = trace \o pre \o <<EvaluateEv(expr, scope, Len(frames))>>

\* the evaluate above frames returns value
Leave(frames, value, pre) ==
  /\ stack' = frames
  /\ ctrl' = Return(value)
  /\ trace' = trace \o pre \o <<ReturnEv(value, Len(frames))>>

\* throw new <error>(message)
Raise(error, message, pre) ==
  /\ stack' = stack
  /\ ctrl' = Throw(error, message)
  /\ trace' = trace \o pre \o <<ThrowEv(error, message)>>

\* op(...values)
Invoke(frames, fn, args) ==
  /\ stack' = frames
  /\ ctrl' = Call(fn, args)
  /\ trace' = trace \o <<CallEv(fn, args, Len(frames))>>

\* a test that yields to a binding of the form's name in scope
IsSpecialFormScoped(expr, scope) ==
  /\ expr.operator.type = "valid identifier"
  /\ expr.operator.name \in SpecialFormNames
  /\ ~Has(scopes, scope, expr.operator.name)

\* the test of evaluate(expr, scope) that sends an application to a special
\* form: operator.type == "valid identifier" && operator.name in specialForms
IsSpecialForm(expr, scope) ==
  /\ expr.operator.type = "valid identifier"
  /\ expr.operator.name \in SpecialFormNames

Evaluating(type) == ctrl.kind = "eval" /\ ctrl.expr.type = type

EvaluatingForm(name) ==
  /\ Evaluating("apply")
  /\ IsSpecialForm(ctrl.expr, ctrl.scope)
  /\ ctrl.expr.operator.name = name

Returning(k) == ctrl.kind = "return" /\ stack /= <<>> /\ Top.k = k

Rest == <<program, atom, parsed, runs, result, seen>>

\* expr.type == "value"
EvaluateValue ==
  /\ Evaluating("value")
  /\ Leave(stack, ctrl.expr.value, <<>>)
  /\ UNCHANGED <<scopes, output, Rest>>

\* expr.type == "valid identifier"
EvaluateIdentifier ==
  /\ Evaluating("valid identifier")
  /\ IF Has(scopes, ctrl.scope, ctrl.expr.name)
     THEN Leave(stack, Get(scopes, ctrl.scope, ctrl.expr.name), <<>>)
     ELSE Raise("ReferenceError", "Undefined binding", <<>>)
  /\ UNCHANGED <<scopes, output, Rest>>

\* expr.type == "apply", not a special form: let op = evaluate(operator, scope)
EvaluateApply ==
  /\ Evaluating("apply")
  /\ ~IsSpecialForm(ctrl.expr, ctrl.scope)
  /\ Enter(Push([k |-> "applyOperator", args |-> ctrl.expr.args,
                 scope |-> ctrl.scope]),
           ctrl.expr.operator, ctrl.scope, <<>>)
  /\ UNCHANGED <<scopes, output, Rest>>

\* typeof op == "function", then args.map starts, or the TypeError
ApplyOperatorReturn ==
  /\ Returning("applyOperator")
  /\ IF ~IsFunction(ctrl.value)
     THEN Raise("TypeError", "Applying a non-function.", <<>>)
     ELSE IF Top.args = <<>>
     THEN Invoke(Pop, ctrl.value, <<>>)
     ELSE Enter(Replace([k |-> "applyArgs", op |-> ctrl.value,
                         args |-> Top.args, vals |-> <<>>,
                         scope |-> Top.scope]),
                Top.args[1], Top.scope, <<>>)
  /\ UNCHANGED <<scopes, output, Rest>>

\* args.map((arg) => evaluate(arg, scope)): the next argument, or the call
ApplyArgReturn ==
  /\ Returning("applyArgs")
  /\ LET vals == Append(Top.vals, ctrl.value)
     IN IF Len(vals) = Len(Top.args)
        THEN Invoke(Pop, Top.op, vals)
        ELSE Enter(Replace([Top EXCEPT !.vals = vals]),
                   Top.args[Len(vals) + 1], Top.scope, <<>>)
  /\ UNCHANGED <<scopes, output, Rest>>

\* op(...) where op is one of topScope's functions
CallNative ==
  /\ ctrl.kind = "call"
  /\ ctrl.fn.t = "function"
  /\ ctrl.fn.kind = "native"
  /\ LET r == NativeResult(ctrl.fn.name, ctrl.args)
     IN IF r.ok THEN Leave(stack, r.value, <<>>)
        ELSE Raise(r.error, r.message, <<>>)
  /\ output' = NativeOutput(ctrl.fn.name, ctrl.args)
  /\ UNCHANGED <<scopes, Rest>>

\* a test that rejects missing arguments only
WrongArityFewer(fn, args) == Len(args) < Len(fn.params)

\* arguments.length != params.length
WrongArity(fn, args) == Len(args) /= Len(fn.params)

\* a local scope made as a child of topScope
LocalScopeParentTop(fn) == TopScopeId

\* Object.create(scope) inside the function fun returns: scope is the scope
\* the fun form was evaluated in
LocalScopeParent(fn) == fn.scope

\* params[i], which is undefined (the property key "undefined") past the end
ParamName(params, i) == IF i <= Len(params) THEN params[i] ELSE undefined_

\* the for loop over arguments: localScope[params[i]] = arguments[i], a later
\* parameter of the same name overwriting an earlier one
ParamVars(params, args) ==
  [n \in {ParamName(params, i) : i \in 1..Len(args)} |->
     LET last == CHOOSE i \in 1..Len(args) :
                   /\ ParamName(params, i) = n
                   /\ \A j \in 1..Len(args) :
                        ParamName(params, j) = n => j <= i
     IN args[last]]

\* op(...) where op is a function made by fun
CallClosure ==
  /\ ctrl.kind = "call"
  /\ ctrl.fn.t = "function"
  /\ ctrl.fn.kind = "fun"
  /\ IF WrongArity(ctrl.fn, ctrl.args)
     THEN /\ Raise("TypeError", "Wrong number of arguments", <<>>)
          /\ scopes' = scopes
     ELSE LET localScope == Len(scopes) + 1
          IN /\ scopes' = Append(scopes,
                            [parent |-> LocalScopeParent(ctrl.fn),
                             vars |-> ParamVars(ctrl.fn.params, ctrl.args)])
             /\ Enter(Push([k |-> "fun", fn |-> ctrl.fn,
                            scope |-> localScope]),
                      ctrl.fn.body, localScope, <<>>)
  /\ UNCHANGED <<output, Rest>>

\* return evaluate(body, localScope)
FunReturn ==
  /\ Returning("fun")
  /\ Leave(Pop, ctrl.value, <<>>)
  /\ UNCHANGED <<scopes, output, Rest>>

\* the form's handler is entered with the argument expressions and the scope
Handler(name) == <<FormEv(name, ctrl.expr.args, ctrl.scope, Len(stack))>>

\* JavaScript's truthiness
Truthy(value) ==
  CASE value.t = "boolean" -> value.v
    [] value.t = "number" -> value.v /= 0
    [] value.t = "string" -> value.v /= <<>>
    [] value.t = "undefined" -> FALSE
    [] OTHER -> TRUE

\* a test of if by truthiness
IfTestTruthy(value) == Truthy(value)

\* evaluate(args[0], scope) !== false in specialForms.if
IfTest(value) == ~(value.t = "boolean" /\ value.v = FALSE)

\* a test of while by truthiness
WhileTestTruthy(value) == Truthy(value)

\* evaluate(args[0], scope) !== false in specialForms.while
WhileTest(value) == ~(value.t = "boolean" /\ value.v = FALSE)

\* specialForms.if up to the evaluation of args[0]
FormIf ==
  /\ EvaluatingForm(if_)
  /\ IF Len(ctrl.expr.args) /= 3
     THEN Raise("SyntaxError", "Wrong number of arguments to if",
                Handler(if_))
     ELSE Enter(Push([k |-> "ifTest", args |-> ctrl.expr.args,
                      scope |-> ctrl.scope]),
                ctrl.expr.args[1], ctrl.scope, Handler(if_))
  /\ UNCHANGED <<scopes, output, Rest>>

\* the test of if has its value: evaluate args[1] or args[2]
IfTestReturn ==
  /\ Returning("ifTest")
  /\ Enter(Replace([k |-> "ifBranch"]),
           IF IfTest(ctrl.value) THEN Top.args[2] ELSE Top.args[3],
           Top.scope, <<>>)
  /\ UNCHANGED <<scopes, output, Rest>>

\* return evaluate(args[1], scope) or return evaluate(args[2], scope)
IfBranchReturn ==
  /\ Returning("ifBranch")
  /\ Leave(Pop, ctrl.value, <<>>)
  /\ UNCHANGED <<scopes, output, Rest>>

\* specialForms.while up to the first evaluation of args[0]
FormWhile ==
  /\ EvaluatingForm(while_)
  /\ IF Len(ctrl.expr.args) /= 2
     THEN Raise("SyntaxError", "Wrong number of args to while",
                Handler(while_))
     ELSE Enter(Push([k |-> "whileTest", args |-> ctrl.expr.args,
                      scope |-> ctrl.scope]),
                ctrl.expr.args[1], ctrl.scope, Handler(while_))
  /\ UNCHANGED <<scopes, output, Rest>>

\* the loop condition has its value: the body, or return false
WhileTestReturn ==
  /\ Returning("whileTest")
  /\ IF WhileTest(ctrl.value)
     THEN Enter(Replace([Top EXCEPT !.k = "whileBody"]),
                Top.args[2], Top.scope, <<>>)
     ELSE Leave(Pop, Bool(FALSE), <<>>)
  /\ UNCHANGED <<scopes, output, Rest>>

\* the body has run: evaluate the condition again
WhileBodyReturn ==
  /\ Returning("whileBody")
  /\ Enter(Replace([Top EXCEPT !.k = "whileTest"]),
           Top.args[1], Top.scope, <<>>)
  /\ UNCHANGED <<scopes, output, Rest>>

\* specialForms.do up to the evaluation of its first argument
FormDo ==
  /\ EvaluatingForm(do_)
  /\ IF ctrl.expr.args = <<>>
     THEN Leave(stack, Bool(FALSE), Handler(do_))
     ELSE Enter(Push([k |-> "do", args |-> ctrl.expr.args, i |-> 1,
                      scope |-> ctrl.scope]),
                ctrl.expr.args[1], ctrl.scope, Handler(do_))
  /\ UNCHANGED <<scopes, output, Rest>>

\* value = evaluate(arg, scope): the next argument, or return value
DoReturn ==
  /\ Returning("do")
  /\ IF Top.i = Len(Top.args)
     THEN Leave(Pop, ctrl.value, <<>>)
     ELSE Enter(Replace([Top EXCEPT !.i = @ + 1]),
                Top.args[Top.i + 1], Top.scope, <<>>)
  /\ UNCHANGED <<scopes, output, Rest>>

\* specialForms.define up to the evaluation of args[1]
FormDefine ==
  /\ EvaluatingForm(define_)
  /\ IF Len(ctrl.expr.args) /= 2
        \/ ctrl.expr.args[1].type /= "valid identifier"
     THEN Raise("SyntaxError", "Incorrect use of define", Handler(define_))
     ELSE Enter(Push([k |-> "define", name |-> ctrl.expr.args[1].name,
                      scope |-> ctrl.scope]),
                ctrl.expr.args[2], ctrl.scope, Handler(define_))
  /\ UNCHANGED <<scopes, output, Rest>>

\* scope[args[0].name] = value; return value
DefineReturn ==
  /\ Returning("define")
  /\ scopes' = Assign(scopes, Top.scope, Top.name, ctrl.value)
  /\ Leave(Pop, ctrl.value, <<>>)
  /\ UNCHANGED <<output, Rest>>

\* specialForms.fun: the function it returns, capturing scope
FormFun ==
  /\ EvaluatingForm(fun_)
  /\ LET args == ctrl.expr.args
         n == Len(args)
     IN IF n = 0
        THEN Raise("SyntaxError", "Functions need a body", Handler(fun_))
        ELSE IF \E i \in 1..(n - 1) : args[i].type /= "valid identifier"
        THEN Raise("SyntaxError",
                   "Parameter names must be valid identifiers",
                   Handler(fun_))
        ELSE Leave(stack,
                   Closure([i \in 1..(n - 1) |-> args[i].name], args[n],
                           ctrl.scope),
                   Handler(fun_))
  /\ UNCHANGED <<scopes, output, Rest>>

\* ----------------------------------------------------------------- programs

\* The texts given to run, one character per element.

\*   do(
\*     define(x, array(1, 2)),
\*     print(x)
\*   )
\* (the program the source file itself runs, lines 380-387)
ProgramSource ==
  <<"\n", "\n", "d", "o", "(", "\n", " ", " ", "d", "e", "f", "i", "n", "e",
    "(", "x", ",", " ", "a", "r", "r", "a", "y", "(", "1", ",", " ", "2",
    ")", ")", ",", "\n", " ", " ", "p", "r", "i", "n", "t", "(", "x", ")",
    "\n", ")", "\n", "\n">>

\*   -(print(5), print(3))
ProgramArgs ==
  <<"-", "(", "p", "r", "i", "n", "t", "(", "5", ")", ",", " ", "p", "r",
    "i", "n", "t", "(", "3", ")", ")">>

\*   do(define(n, 5), n(print(1), define(y, 2)))
ProgramNotCallable ==
  <<"d", "o", "(", "d", "e", "f", "i", "n", "e", "(", "n", ",", " ", "5",
    ")", ",", " ", "n", "(", "p", "r", "i", "n", "t", "(", "1", ")", ",",
    " ", "d", "e", "f", "i", "n", "e", "(", "y", ",", " ", "2", ")", ")",
    ")">>

\*   fun(do, do(define(if, 9), if(do, 1, 2)))(false)
ProgramShadowForm ==
  <<"f", "u", "n", "(", "d", "o", ",", " ", "d", "o", "(", "d", "e", "f",
    "i", "n", "e", "(", "i", "f", ",", " ", "9", ")", ",", " ", "i", "f",
    "(", "d", "o", ",", " ", "1", ",", " ", "2", ")", ")", ")", "(", "f",
    "a", "l", "s", "e", ")">>

\*   array(if(0, print(1), print(2)), if("", 3, nope), if(false, nope, 4))
ProgramIf ==
  <<"a", "r", "r", "a", "y", "(", "i", "f", "(", "0", ",", " ", "p", "r",
    "i", "n", "t", "(", "1", ")", ",", " ", "p", "r", "i", "n", "t", "(",
    "2", ")", ")", ",", " ", "i", "f", "(", "\"", "\"", ",", " ", "3", ",",
    " ", "n", "o", "p", "e", ")", ",", " ", "i", "f", "(", "f", "a", "l",
    "s", "e", ",", " ", "n", "o", "p", "e", ",", " ", "4", ")", ")">>

\*   do(define(x, 1), define(f, fun(y, do(define(x, +(x, y)), x))), define(a, f(5)), define(x, 10), array(a, f(5), x))
ProgramClosure ==
  <<"d", "o", "(", "d", "e", "f", "i", "n", "e", "(", "x", ",", " ", "1",
    ")", ",", " ", "d", "e", "f", "i", "n", "e", "(", "f", ",", " ", "f",
    "u", "n", "(", "y", ",", " ", "d", "o", "(", "d", "e", "f", "i", "n",
    "e", "(", "x", ",", " ", "+", "(", "x", ",", " ", "y", ")", ")", ",",
    " ", "x", ")", ")", ")", ",", " ", "d", "e", "f", "i", "n", "e", "(",
    "a", ",", " ", "f", "(", "5", ")", ")", ",", " ", "d", "e", "f", "i",
    "n", "e", "(", "x", ",", " ", "1", "0", ")", ",", " ", "a", "r", "r",
    "a", "y", "(", "a", ",", " ", "f", "(", "5", ")", ",", " ", "x", ")",
    ")">>

\*   do(define(f, fun(z)), define(g, fun(z, f())), g(1))
ProgramCaller ==
  <<"d", "o", "(", "d", "e", "f", "i", "n", "e", "(", "f", ",", " ", "f",
    "u", "n", "(", "z", ")", ")", ",", " ", "d", "e", "f", "i", "n", "e",
    "(", "g", ",", " ", "f", "u", "n", "(", "z", ",", " ", "f", "(", ")",
    ")", ")", ",", " ", "g", "(", "1", ")", ")">>

\*   do(define(f, fun(a, b, define(x, print(a)))), f(1))
ProgramFewArgs ==
  <<"d", "o", "(", "d", "e", "f", "i", "n", "e", "(", "f", ",", " ", "f",
    "u", "n", "(", "a", ",", " ", "b", ",", " ", "d", "e", "f", "i", "n",
    "e", "(", "x", ",", " ", "p", "r", "i", "n", "t", "(", "a", ")", ")",
    ")", ")", ",", " ", "f", "(", "1", ")", ")">>

\*   fun(a, b, print(a))(1, 2, 3)
ProgramManyArgs ==
  <<"f", "u", "n", "(", "a", ",", " ", "b", ",", " ", "p", "r", "i", "n",
    "t", "(", "a", ")", ")", "(", "1", ",", " ", "2", ",", " ", "3", ")">>

\*   array(length(array(1, 2, 3)), element(array(10, 20, 30), 1), element(array(), 0))
ProgramElement ==
  <<"a", "r", "r", "a", "y", "(", "l", "e", "n", "g", "t", "h", "(", "a",
    "r", "r", "a", "y", "(", "1", ",", " ", "2", ",", " ", "3", ")", ")",
    ",", " ", "e", "l", "e", "m", "e", "n", "t", "(", "a", "r", "r", "a",
    "y", "(", "1", "0", ",", " ", "2", "0", ",", " ", "3", "0", ")", ",",
    " ", "1", ")", ",", " ", "e", "l", "e", "m", "e", "n", "t", "(", "a",
    "r", "r", "a", "y", "(", ")", ",", " ", "0", ")", ")">>

\*   do(define(i, 0), array(while(if(<(i, 2), 0, false), define(i, +(i, 1))), i))
ProgramWhile ==
  <<"d", "o", "(", "d", "e", "f", "i", "n", "e", "(", "i", ",", " ", "0",
    ")", ",", " ", "a", "r", "r", "a", "y", "(", "w", "h", "i", "l", "e",
    "(", "i", "f", "(", "<", "(", "i", ",", " ", "2", ")", ",", " ", "0",
    ",", " ", "f", "a", "l", "s", "e", ")", ",", " ", "d", "e", "f", "i",
    "n", "e", "(", "i", ",", " ", "+", "(", "i", ",", " ", "1", ")", ")",
    ")", ",", " ", "i", ")", ")">>

\*   do(define(-, +), define(true, false), if(true, 1, -(5, 3)))
ProgramShadowRoot ==
  <<"d", "o", "(", "d", "e", "f", "i", "n", "e", "(", "-", ",", " ", "+",
    ")", ",", " ", "d", "e", "f", "i", "n", "e", "(", "t", "r", "u", "e",
    ",", " ", "f", "a", "l", "s", "e", ")", ",", " ", "i", "f", "(", "t",
    "r", "u", "e", ",", " ", "1", ",", " ", "-", "(", "5", ",", " ", "3",
    ")", ")", ")">>

\*   fun(a, fun(b, +(a,b)))(3)(4)
ProgramCurried ==
  <<"f", "u", "n", "(", "a", ",", " ", "f", "u", "n", "(", "b", ",", " ",
    "+", "(", "a", ",", "b", ")", ")", ")", "(", "3", ")", "(", "4", ")">>

\*   do(1
ProgramUnclosed ==
  <<"d", "o", "(", "1">>

\*   12abc
ProgramDigits ==
  <<"1", "2", "a", "b", "c">>

Programs ==
  {ProgramSource,
   ProgramArgs,
   ProgramNotCallable,
   ProgramShadowForm,
   ProgramIf,
   ProgramClosure,
   ProgramCaller,
   ProgramFewArgs,
   ProgramManyArgs,
   ProgramElement,
   ProgramWhile,
   ProgramShadowRoot,
   ProgramCurried,
   ProgramUnclosed,
   ProgramDigits}

\* ---------------------------------------------------------------------- run

\* a closure is compared across runs by being a function: its scope is an
\* object of the run that made it
View(value) ==
  IF value.t = "function" THEN [t |-> "function"]
  ELSE IF value.t = "array"
  THEN Arr([i \in 1..Len(value.v) |->
              IF value.v[i].t = "function" THEN [t |-> "function"]
              ELSE value.v[i]])
  ELSE value

NoResult == [status |-> "none"]
Running == [status |-> "running"]
Returned_(value) == [status |-> "returned", value |-> View(value)]
Threw(error, message) ==
  [status |-> "threw", error |-> error, message |-> message]

Remember(outcome) ==
  IF program \in DOMAIN seen THEN seen ELSE (program :> outcome) @@ seen

\* a run that evaluates in topScope itself
RunScopeTop(sc) == [scopes |-> sc, id |-> TopScopeId]

\* the scope run evaluates the program in, Object.create(topScope), and the
\* scope objects there are once it is made
RunScope(sc) ==
  [scopes |-> Append(sc, ObjectCreate(TopScopeId)), id |-> Len(sc) + 1]

\* run(program): parse(program), then evaluate in a fresh scope
Run(src) ==
  /\ ctrl.kind = "idle"
  /\ runs < MaxRuns
  /\ runs' = runs + 1
  /\ program' = src
  /\ atom' = parseAtom(src)
  /\ parsed' = parse(src)
  /\ result' = Running
  /\ stack' = <<>>
  /\ IF parsed'.ok
     THEN LET made == RunScope(scopes)
          IN /\ scopes' = made.scopes
             /\ ctrl' = Eval(parsed'.expr, made.id)
             /\ trace' = <<EvaluateEv(parsed'.expr, made.id, 0)>>
     ELSE /\ scopes' = scopes
          /\ ctrl' = Throw(parsed'.error, parsed'.message)
          /\ trace' = <<ThrowEv(parsed'.error, parsed'.message)>>
  /\ UNCHANGED <<output, seen>>

\* evaluate returns to run, which returns the value
RunReturn ==
  /\ ctrl.kind = "return"
  /\ stack = <<>>
  /\ ctrl' = Idle
  /\ result' = Returned_(ctrl.value)
  /\ seen' = Remember(result')
  /\ UNCHANGED <<program, atom, parsed, stack, scopes, output, trace, runs>>

\* no handler catches: the error unwinds every activation and leaves run
RunThrow ==
  /\ ctrl.kind = "throw"
  /\ ctrl' = Idle
  /\ stack' = <<>>
  /\ result' = Threw(ctrl.error, ctrl.message)
  /\ seen' = Remember(result')
  /\ UNCHANGED <<program, atom, parsed, scopes, output, trace, runs>>

Init ==
  /\ program = <<>>
  /\ atom = NotParsed
  /\ parsed = NotParsed
  /\ ctrl = Idle
  /\ stack = <<>>
  /\ scopes = <<topScope>>
  /\ output = <<>>
  /\ trace = <<>>
  /\ runs = 0
  /\ result = NoResult
  /\ seen = EmptyVars

Next ==
  \/ \E src \in Programs : Run(src)
  \/ EvaluateValue
  \/ EvaluateIdentifier
  \/ EvaluateApply
  \/ ApplyOperatorReturn
  \/ ApplyArgReturn
  \/ CallNative
  \/ CallClosure
  \/ FunReturn
  \/ FormIf
  \/ IfTestReturn
  \/ IfBranchReturn
  \/ FormWhile
  \/ WhileTestReturn
  \/ WhileBodyReturn
  \/ FormDo
  \/ DoReturn
  \/ FormDefine
  \/ DefineReturn
  \/ FormFun
  \/ RunReturn
  \/ RunThrow

Spec == Init /\ [][Next]_vars

\* ------------------------------------------------- parseExpression on its own

\* the characters of the input texts of SpecParse
Alphabet == {"1", "2", "a", "_", "+", "(", ")", ",", " ", "\""}

Inputs == UNION {[1..n -> Alphabet] : n \in 0..MaxLen}

InitParse ==
  /\ program \in Inputs
  /\ atom = NotParsed
  /\ parsed = NotParsed
  /\ ctrl = Idle
  /\ stack = <<>>
  /\ scopes = <<topScope>>
  /\ output = <<>>
  /\ trace = <<>>
  /\ runs = 0
  /\ result = NoResult
  /\ seen = EmptyVars

\* parseExpression(program)
ParseExpression ==
  /\ parsed = NotParsed
  /\ atom' = parseAtom(program)
  /\ parsed' = parseExpression(program)
  /\ UNCHANGED <<program, ctrl, stack, scopes, output, trace, runs, result,
                 seen>>

NextParse == ParseExpression

SpecParse == InitParse /\ [][NextParse]_vars

\* ---------------------------------------------------- reading the trace

\* Every step of an evaluation appends to trace, so the trace of a run up to
\* any of its events is the trace of a reachable state: a condition on the last events of the
\* trace, holding in every reachable state, holds of every event of every run.

Last == trace[Len(trace)]
Before == trace[Len(trace) - 1]

IsEvaluate(e, depth) == e.ev = "evaluate" /\ e.depth = depth
IsReturn(e, depth) == e.ev = "return" /\ e.depth = depth

\* the latest call of evaluate at this depth among trace[1..j], 0 if none:
\* the activation that is open at depth when event j + 1 happens one level up
RECURSIVE Opener(_, _)
Opener(j, depth) ==
  IF j = 0 THEN 0
  ELSE IF IsEvaluate(trace[j], depth) THEN j
  ELSE Opener(j - 1, depth)

\* the calls of evaluate made directly by activation i, up to event j
Kids(i, j) ==
  LET Test(e) == IsEvaluate(e, trace[i].depth + 1)
  IN SelectSeq(SubSeq(trace, i + 1, j), Test)

\* the returns of those calls, up to event j
Rets(i, j) ==
  LET Test(e) == IsReturn(e, trace[i].depth + 1)
  IN SelectSeq(SubSeq(trace, i + 1, j), Test)

\* the operator is a bare identifier naming a special form
NamesSpecialForm(expr) ==
  /\ expr.type = "apply"
  /\ expr.operator.type = "valid identifier"
  /\ expr.operator.name \in {if_, while_, do_, define_, fun_}

NamesForm(expr, name) ==
  /\ expr.type = "apply"
  /\ expr.operator.type = "valid identifier"
  /\ expr.operator.name = name

\* an application whose operator is not a bare identifier naming a special form
NormalApply(expr) == expr.type = "apply" /\ ~NamesSpecialForm(expr)

IsFalse(value) == value.t = "boolean" /\ value.v = FALSE

Values(rets) == [k \in 1..Len(rets) |-> rets[k].value]

\* ------------------------------------------------------------------ claims

\* the operator, then the arguments, of application a
Operands(a) == <<a.operator>> \o a.args

\* event j is the return of an operand of normal application i, no call made
OperandReturned(i, j) ==
  /\ i > 0
  /\ NormalApply(trace[i].expr)
  /\ Len(Rets(i, j)) = Len(Kids(i, j))
  /\ \A k \in (i + 1)..j : ~(trace[k].ev = "call" /\ trace[k].depth = trace[i].depth)

\* C1: in an application that is not a special form the operator is evaluated
\* first; a value that is not callable fails with "Applying a non-function."
\* before any argument is evaluated; otherwise the arguments are evaluated
\* once each, left to right, in the current scope, and only then is the
\* callable invoked with their values in that order.
C1_ApplicationOrder ==
  Len(trace) >= 2 =>
    /\ (Last.ev = "evaluate" /\ Last.depth >= 1 /\ Before.ev /= "call") =>
         LET i == Opener(Len(trace) - 1, Last.depth - 1)
             kids == Kids(i, Len(trace))
             rets == Rets(i, Len(trace))
         IN NormalApply(trace[i].expr) =>
              /\ Len(kids) <= Len(Operands(trace[i].expr))
              /\ Len(rets) = Len(kids) - 1
              /\ \A k \in 1..Len(kids) :
                   /\ kids[k].expr = Operands(trace[i].expr)[k]
                   /\ kids[k].scope = trace[i].scope
              /\ Len(kids) >= 2 => rets[1].value.t = "function"
    /\ Last.ev = "call" =>
         LET i == Opener(Len(trace) - 1, Last.depth)
             kids == Kids(i, Len(trace))
             rets == Rets(i, Len(trace))
         IN /\ i > 0
            /\ NormalApply(trace[i].expr)
            /\ Len(kids) = Len(Operands(trace[i].expr))
            /\ Len(rets) = Len(kids)
            /\ Last.fn = rets[1].value
            /\ Last.fn.t = "function"
            /\ Last.args = Values(SubSeq(rets, 2, Len(rets)))
    /\ (Last.ev = "throw" /\ Last.message = "Applying a non-function.") =>
         /\ Before.ev = "return"
         /\ Before.depth >= 1
         /\ Before.value.t /= "function"
         /\ LET i == Opener(Len(trace) - 1, Before.depth - 1)
            IN /\ OperandReturned(i, Len(trace) - 1)
               /\ Len(Kids(i, Len(trace))) = 1
    /\ (Before.ev = "return" /\ Before.depth >= 1) =>
         LET i == Opener(Len(trace) - 2, Before.depth - 1)
             k == Len(Kids(i, Len(trace) - 1))
             rets == Rets(i, Len(trace) - 1)
             a == trace[i].expr
         IN OperandReturned(i, Len(trace) - 1) =>
              IF rets[1].value.t /= "function"
              THEN /\ k = 1
                   /\ Last = ThrowEv("TypeError", "Applying a non-function.")
              ELSE IF k < Len(Operands(a))
              THEN Last = EvaluateEv(Operands(a)[k + 1], trace[i].scope,
                                     Before.depth)
              ELSE Last = CallEv(rets[1].value,
                                 Values(SubSeq(rets, 2, Len(rets))),
                                 Before.depth - 1)

\* a value that is not callable was applied to arguments: the error is thrown
\* and nothing was printed, no argument having been evaluated
C1_Witness ==
  /\ Len(trace) >= 2
  /\ Last = ThrowEv("TypeError", "Applying a non-function.")
  /\ LET i == Opener(Len(trace) - 1, Before.depth - 1)
     IN Len(trace[i].expr.args) >= 1
  /\ output = <<>>

\* C2: an application whose operator is a bare identifier naming a special
\* form goes to the form's handler with the unevaluated argument expressions
\* and the current scope, nothing being evaluated first, whatever the scope
\* binds that name to; and a handler is entered in no other way.
C2_SyntacticDispatch ==
  /\ \A i \in 1..Len(trace) :
       /\ (trace[i].ev = "evaluate" /\ NamesSpecialForm(trace[i].expr)) =>
            IF i < Len(trace)
            THEN trace[i + 1] = FormEv(trace[i].expr.operator.name,
                                       trace[i].expr.args, trace[i].scope,
                                       trace[i].depth)
            ELSE ctrl = Eval(trace[i].expr, trace[i].scope)
       /\ trace[i].ev = "form" =>
            /\ i > 1
            /\ trace[i - 1].ev = "evaluate"
            /\ NamesForm(trace[i - 1].expr, trace[i].name)
  /\ (Len(trace) >= 1 /\ Last.ev = "call") =>
       LET i == Opener(Len(trace) - 1, Last.depth)
       IN i > 0 /\ ~NamesSpecialForm(trace[i].expr)

\* a form's handler was entered in a scope that binds the form's name
C2_Witness ==
  /\ Len(trace) >= 2
  /\ Before.ev = "form"
  /\ Before.name = if_
  /\ Has(scopes, Before.scope, Before.name)

\* C3: an if with three arguments evaluates args[0] once, then args[1] alone
\* when that value is not the boolean false (0 and "" included), args[2]
\* alone when it is, and returns the value of the one it evaluated.
C3_IfBranch ==
  Len(trace) >= 2 =>
    /\ (Last.ev = "evaluate" /\ Last.depth >= 1) =>
         LET i == Opener(Len(trace) - 1, Last.depth - 1)
             a == trace[i].expr
             kids == Kids(i, Len(trace))
             rets == Rets(i, Len(trace))
         IN (NamesForm(a, if_) /\ Len(a.args) = 3) =>
              /\ Len(kids) <= 2
              /\ Len(rets) = Len(kids) - 1
              /\ kids[1].expr = a.args[1]
              /\ \A k \in 1..Len(kids) : kids[k].scope = trace[i].scope
              /\ Len(kids) = 2 =>
                   kids[2].expr = IF IsFalse(rets[1].value)
                                  THEN a.args[3] ELSE a.args[2]
    /\ Last.ev = "return" =>
         LET i == Opener(Len(trace) - 1, Last.depth)
             a == trace[i].expr
             kids == Kids(i, Len(trace))
             rets == Rets(i, Len(trace))
         IN (i > 0 /\ NamesForm(a, if_) /\ Len(a.args) = 3) =>
              /\ Len(kids) = 2
              /\ Len(rets) = 2
              /\ kids[2].expr = IF IsFalse(rets[1].value)
                                THEN a.args[3] ELSE a.args[2]
              /\ Last.value = rets[2].value

\* an if whose test yielded the number 0 returned the value of args[1]
C3_Witness ==
  /\ Len(trace) >= 2
  /\ Last.ev = "return"
  /\ LET i == Opener(Len(trace) - 1, Last.depth)
         rets == Rets(i, Len(trace))
     IN /\ i > 0
        /\ NamesForm(trace[i].expr, if_)
        /\ Len(rets) = 2
        /\ rets[1].value.t = "number"
        /\ rets[1].value.v = 0
        /\ Kids(i, Len(trace))[2].expr = trace[i].expr.args[2]

\* the scopes above s along its chain, nearest first
Ancestors(sc, s) == Chain(sc, sc[s].parent)

\* the state in which specialForms.define is about to assign
Defining == ctrl.kind = "return" /\ stack /= <<>> /\ Top.k = "define"

\* C4: define(name, expr) in scope S evaluates expr in S, creates or
\* overwrites name among S's own bindings only and returns the value: every
\* other scope, each ancestor of S included, keeps its bindings, so name read
\* from S gives the new value and read from an ancestor gives what it gave.
C4_DefineOwnScope ==
  /\ [](Len(trace) >= 2 =>
          /\ (Last.ev = "evaluate" /\ Last.depth >= 1) =>
               LET i == Opener(Len(trace) - 1, Last.depth - 1)
                   a == trace[i].expr
               IN (NamesForm(a, define_) /\ Len(a.args) = 2
                     /\ a.args[1].type = "valid identifier") =>
                    /\ Len(Kids(i, Len(trace))) = 1
                    /\ Last.expr = a.args[2]
                    /\ Last.scope = trace[i].scope
                    /\ ctrl = Eval(a.args[2], trace[i].scope)
                    /\ Top.k = "define"
                    /\ Top.scope = trace[i].scope
                    /\ Top.name = a.args[1].name
          /\ Last.ev = "return" =>
               LET i == Opener(Len(trace) - 1, Last.depth)
                   a == trace[i].expr
                   rets == Rets(i, Len(trace))
               IN (i > 0 /\ NamesForm(a, define_)) =>
                    /\ Len(rets) = 1
                    /\ Last.value = rets[1].value
                    /\ a.args[1].name \in DOMAIN scopes[trace[i].scope].vars
                    /\ scopes[trace[i].scope].vars[a.args[1].name] = Last.value)
  /\ [][Defining =>
          LET S == Top.scope
              name == Top.name
          IN /\ ctrl' = Return(ctrl.value)
             /\ Len(scopes') = Len(scopes)
             /\ \A s \in 1..Len(scopes) : s /= S => scopes'[s] = scopes[s]
             /\ scopes'[S].parent = scopes[S].parent
             /\ DOMAIN scopes'[S].vars = DOMAIN scopes[S].vars \cup {name}
             /\ scopes'[S].vars[name] = ctrl.value
             /\ \A m \in DOMAIN scopes[S].vars :
                  m /= name => scopes'[S].vars[m] = scopes[S].vars[m]
             /\ Get(scopes', S, name) = ctrl.value
             /\ \A k \in 1..Len(Ancestors(scopes, S)) :
                  LET A == Ancestors(scopes, S)[k]
                  IN /\ Has(scopes', A, name) = Has(scopes, A, name)
                     /\ Has(scopes, A, name) =>
                          Get(scopes', A, name) = Get(scopes, A, name)]_vars

\* a define has just bound, in a scope created by a call, a name that the
\* scope's parent binds to another value
C4_Witness ==
  /\ Len(trace) >= 2
  /\ Last.ev = "return"
  /\ LET i == Opener(Len(trace) - 1, Last.depth)
     IN /\ i > 0
        /\ NamesForm(trace[i].expr, define_)
        /\ LET S == trace[i].scope
               name == trace[i].expr.args[1].name
           IN /\ scopes[S].parent /= TopScopeId
              /\ scopes[S].vars[name] = Last.value
              /\ Has(scopes, scopes[S].parent, name)
              /\ Get(scopes, scopes[S].parent, name) /= Last.value

\* the value an identifier has in scope s, found by walking the chain of s
Resolves(s, name) ==
  \E k \in 1..Len(Chain(scopes, s)) :
    name \in DOMAIN scopes[Chain(scopes, s)[k]].vars

Resolved(s, name) ==
  LET ch == Chain(scopes, s)
      k == CHOOSE k \in 1..Len(ch) :
             /\ name \in DOMAIN scopes[ch[k]].vars
             /\ \A j \in 1..(k - 1) : name \notin DOMAIN scopes[ch[j]].vars
  IN scopes[ch[k]].vars[name]

\* the scope ids the events of the trace before the last one mention
UsedScopes ==
  {trace[j].scope : j \in {j \in 1..(Len(trace) - 1) :
                             trace[j].ev \in {"evaluate", "form"}}}

\* C5: a call of a closure with as many arguments as parameters evaluates
\* the body in a fresh scope holding the parameters bound to the arguments,
\* whose parent is the scope the fun form was evaluated in; an identifier
\* resolves through that chain as it is when it is read, and is unresolved
\* when no scope of the chain binds it.
C5_ClosureScope ==
  Len(trace) >= 2 =>
    /\ (Before.ev = "call" /\ Before.fn.kind = "fun"
          /\ Len(Before.args) = Len(Before.fn.params)) =>
         /\ Last = EvaluateEv(Before.fn.body, Len(scopes), Before.depth + 1)
         /\ ctrl = Eval(Before.fn.body, Len(scopes))
         /\ Len(scopes) \notin UsedScopes
         /\ scopes[Len(scopes)].parent = Before.fn.scope
         /\ DOMAIN scopes[Len(scopes)].vars =
              {Before.fn.params[k] : k \in 1..Len(Before.args)}
         /\ \A k \in 1..Len(Before.args) :
              (\A j \in (k + 1)..Len(Before.args) :
                 Before.fn.params[j] /= Before.fn.params[k]) =>
                scopes[Len(scopes)].vars[Before.fn.params[k]] = Before.args[k]
         /\ Chain(scopes, Len(scopes)) =
              <<Len(scopes)>> \o Chain(scopes, Before.fn.scope)
    /\ (Before.ev = "form" /\ Before.name = fun_ /\ Last.ev = "return") =>
         /\ Last.value.t = "function"
         /\ Last.value.kind = "fun"
         /\ Last.value.scope = Before.scope
         /\ Last.value.body = Before.args[Len(Before.args)]
         /\ Len(Last.value.params) = Len(Before.args) - 1
         /\ \A k \in 1..Len(Last.value.params) :
              Last.value.params[k] = Before.args[k].name
    /\ (Before.ev = "evaluate" /\ Before.expr.type = "valid identifier") =>
         IF Resolves(Before.scope, Before.expr.name)
         THEN Last = ReturnEv(Resolved(Before.scope, Before.expr.name),
                              Before.depth)
         ELSE Last = ThrowEv("ReferenceError", "Undefined binding")

\* the scope of the application that made the call whose body is being
\* evaluated at depth: the caller's scope
CallerScope(depth) == trace[Opener(Len(trace) - 1, depth - 1)].scope

\* the body of a closure read a name that only the caller's scope binds, and
\* the name was unresolved
C5_Witness ==
  /\ Len(trace) >= 2
  /\ Last = ThrowEv("ReferenceError", "Undefined binding")
  /\ Before.ev = "evaluate"
  /\ Before.depth >= 1
  /\ stack /= <<>>
  /\ Top.k = "fun"
  /\ Top.scope = Before.scope
  /\ Has(scopes, CallerScope(Before.depth), Before.expr.name)
  /\ CallerScope(Before.depth) /= Top.fn.scope

\* the state in which a closure is about to be called with a wrong number of
\* arguments
CallingWithWrongArity ==
  /\ ctrl.kind = "call"
  /\ ctrl.fn.kind = "fun"
  /\ Len(ctrl.args) /= Len(ctrl.fn.params)

\* C6: a call of a closure with fewer or more arguments than parameters
\* throws the arity error; the body is not evaluated, no scope is created and
\* no binding of any scope changes.
C6_ArityError ==
  [][CallingWithWrongArity =>
       /\ ctrl' = Throw("TypeError", "Wrong number of arguments")
       /\ trace' = Append(trace, ThrowEv("TypeError", "Wrong number of arguments"))
       /\ scopes' = scopes
       /\ stack' = stack
       /\ output' = output]_vars

\* a closure called with more arguments than parameters has thrown
C6_Witness ==
  /\ Len(trace) >= 2
  /\ Last = ThrowEv("TypeError", "Wrong number of arguments")
  /\ Before.ev = "call"
  /\ Len(Before.args) > Len(Before.fn.params)

\* C7: element(array, n) returns the element at zero-based index n when
\* 0 <= n < length(array), and fails with an error when n is out of range.
C7_ElementOutOfRange ==
  (Len(trace) >= 2 /\ Before.ev = "call" /\ Before.fn = Native(element_)
     /\ Len(Before.args) = 2 /\ Before.args[1].t = "array"
     /\ Before.args[2].t = "number") =>
    IF 0 <= Before.args[2].v /\ Before.args[2].v < Len(Before.args[1].v)
    THEN Last = ReturnEv(Before.args[1].v[Before.args[2].v + 1], Before.depth)
    ELSE Last.ev = "throw"

\* the input of parseExpression after its leading whitespace, and the length
\* of the run of digits it begins with
Skipped == skipSpace(program)
DigitRun == RunLenIn(Skipped, Digits)

NumberLiteral ==
  Parsed(ValueExpr(Num(Number(SubSeq(Skipped, 1, DigitRun)))),
         Slice(Skipped, DigitRun))

\* C8 as stated: an input that begins with a digit is read as the number
\* literal of its maximal digit run, whatever follows the run, and the
\* characters after the run are the remaining input.
C8_DigitsAlwaysNumber ==
  (parsed /= NotParsed /\ DigitRun >= 1) => atom = NumberLiteral

\* C8 as amended: the maximal digit run is read as a number literal, the
\* characters after it being the remaining input, when the end of input or a
\* character other than a letter, a digit or an underscore follows it; when
\* a letter or an underscore follows it, the maximal run of identifier
\* characters, digits included, is read as one identifier.
C8_NumberLiteral ==
  (parsed /= NotParsed /\ DigitRun >= 1) =>
    IF DigitRun = Len(Skipped)
         \/ Skipped[DigitRun + 1] \notin Letters \cup Digits \cup {"_"}
    THEN atom = NumberLiteral
    ELSE LET m == RunLenNotIn(Skipped, {" ", "\t", "\n", "(", ")", ",", "#", "\""})
         IN /\ m > DigitRun
            /\ atom = Parsed(IdentifierExpr(SubSeq(Skipped, 1, m)),
                             Slice(Skipped, m))

\* digits followed by a character that is neither a word character nor
\* whitespace were read as a number literal, that character left over
C8_Witness ==
  /\ parsed /= NotParsed
  /\ DigitRun >= 1
  /\ DigitRun < Len(Skipped)
  /\ Skipped[DigitRun + 1] = "+"
  /\ atom.ok
  /\ atom.expr.type = "value"
  /\ atom.expr.value.t = "number"
  /\ Head(atom.rest) = "+"

\* the scope the current run evaluates its program in
RunScopeOf == trace[1].scope

\* C9: the root scope holds its initial bindings whatever programs have run;
\* each run evaluates in a fresh, empty child of the root scope, every scope
\* made during the run chains to the root through scopes of that run alone,
\* and a program run again gives the outcome it gave the first time.
C9_RootScopeUnchanged ==
  /\ scopes[TopScopeId] = topScope
  /\ (Len(trace) >= 1 /\ trace[1].ev = "evaluate") =>
       /\ RunScopeOf /= TopScopeId
       /\ scopes[RunScopeOf].parent = TopScopeId
       /\ Len(trace) = 1 =>
            /\ RunScopeOf = Len(scopes)
            /\ DOMAIN scopes[RunScopeOf].vars = {}
       /\ \A s \in RunScopeOf..Len(scopes) :
            \A k \in 1..Len(Chain(scopes, s)) :
              \/ Chain(scopes, s)[k] = TopScopeId
              \/ Chain(scopes, s)[k] >= RunScopeOf
       /\ ctrl.kind = "eval" => ctrl.scope >= RunScopeOf
  /\ (ctrl.kind = "idle" /\ runs >= 1) =>
       /\ program \in DOMAIN seen
       /\ result = seen[program]

\* a run has finished with the built-in result after an earlier run bound, at
\* its top level, the names - and true that the later program uses
C9_Witness ==
  /\ runs = 2
  /\ ctrl.kind = "idle"
  /\ program = ProgramArgs
  /\ result = Returned_(Num(2))
  /\ <<"-">> \in DOMAIN scopes[2].vars
  /\ scopes[2].vars[<<"-">>] = Native(<<"+">>)

\* C10: a while with two arguments evaluates args[0], args[1], args[0], ...
\* in turn; args[1] once after each value of args[0] that is not the boolean
\* false (0 and "" included) and never after one that is; it stops at the
\* first value of args[0] that is false, and then returns false.
C10_WhileLoop ==
  Len(trace) >= 2 =>
    /\ (Last.ev = "evaluate" /\ Last.depth >= 1) =>
         LET i == Opener(Len(trace) - 1, Last.depth - 1)
             a == trace[i].expr
             kids == Kids(i, Len(trace))
             rets == Rets(i, Len(trace))
         IN (NamesForm(a, while_) /\ Len(a.args) = 2) =>
              /\ Len(rets) = Len(kids) - 1
              /\ \A k \in 1..Len(kids) :
                   /\ kids[k].expr = IF k % 2 = 1 THEN a.args[1] ELSE a.args[2]
                   /\ kids[k].scope = trace[i].scope
              /\ \A k \in 1..Len(rets) : k % 2 = 1 => ~IsFalse(rets[k].value)
    /\ Last.ev = "return" =>
         LET i == Opener(Len(trace) - 1, Last.depth)
             a == trace[i].expr
             kids == Kids(i, Len(trace))
             rets == Rets(i, Len(trace))
         IN (i > 0 /\ NamesForm(a, while_) /\ Len(a.args) = 2) =>
              /\ IsFalse(Last.value)
              /\ Len(kids) % 2 = 1
              /\ Len(rets) = Len(kids)
              /\ Before = rets[Len(rets)]
              /\ \A k \in 1..Len(rets) :
                   k % 2 = 1 => (IsFalse(rets[k].value) <=> k = Len(rets))
    /\ (Before.ev = "return" /\ Before.depth >= 1) =>
         LET i == Opener(Len(trace) - 2, Before.depth - 1)
             a == trace[i].expr
             k == Len(Kids(i, Len(trace) - 1))
         IN (NamesForm(a, while_) /\ Len(a.args) = 2) =>
              IF k % 2 = 0
              THEN Last = EvaluateEv(a.args[1], trace[i].scope, Before.depth)
              ELSE IF IsFalse(Before.value)
              THEN Last = ReturnEv(Bool(FALSE), Before.depth - 1)
              ELSE Last = EvaluateEv(a.args[2], trace[i].scope, Before.depth)

\* a while has returned after its condition yielded the number 0, its body
\* having run after that
C10_Witness ==
  /\ Len(trace) >= 2
  /\ Last.ev = "return"
  /\ LET i == Opener(Len(trace) - 1, Last.depth)
         rets == Rets(i, Len(trace))
     IN /\ i > 0
        /\ NamesForm(trace[i].expr, while_)
        /\ Len(rets) >= 3
        /\ rets[1].value.t = "number"
        /\ rets[1].value.v = 0

====
